---- MODULE Spec2Model ----
(***************************************************************************)
(* DeviceAccessHub: the in-memory record store (server/storage.ts), the    *)
(* validation schemas (shared/schema.ts) and the request handlers          *)
(* (server/routes.ts).                                                     *)
(*                                                                         *)
(* A JavaScript object is a function from its property names to values; a  *)
(* JavaScript Map is the sequence of its entries in insertion order.       *)
(***************************************************************************)
EXTENDS Integers, Sequences, FiniteSets, TLC

VARIABLES
  users,      \* MemStorage.users
  devices,    \* MemStorage.devices
  userId,     \* MemStorage.userId
  deviceId,   \* MemStorage.deviceId
  session,    \* req.session.user of the client's session, or undefined
  last,       \* the last step: the call or request, its arguments, its result, the state at its call
  created,    \* history: the ids returned by createDevice, in call order
  deleted,    \* history: the ids for which deleteDevice returned true
  waiting     \* the handlers that wait, in the order of their calls: at an await, or for the callback of destroy

vars == <<users, devices, userId, deviceId, session, last, created, deleted,
          waiting>>

(* ------------------------------ bounds --------------------------------- *)

\* createDevice calls explored after the twelve calls of the constructor
MaxCreates == 2

\* createUser calls explored after the one call of the constructor
MaxUserCreates == 2

\* the handlers that wait together are at most this many
MaxWaiting == 2

(* ------------------------- JavaScript values --------------------------- *)

\* the value `undefined`
Undefined == [undefined |-> TRUE]

\* { ...a, ...b }: the properties of a, overwritten and extended by those of b
Spread(a, b) ==
  [k \in (DOMAIN a) \cup (DOMAIN b) |-> IF k \in DOMAIN b THEN b[k] ELSE a[k]]

\* the empty object {}
EmptyObject == [k \in {} |-> ""]

\* !obj.k for a string property: absent or the empty string
Falsy(obj, k) == k \notin DOMAIN obj \/ obj[k] = ""

\* String.prototype.includes, scanning the start positions left to right
RECURSIVE IncludesFrom(_, _, _)
IncludesFrom(s, t, i) ==
  IF i + Len(t) - 1 > Len(s) THEN FALSE
  ELSE IF SubSeq(s, i, i + Len(t) - 1) = t THEN TRUE
  ELSE IncludesFrom(s, t, i + 1)

includes(s, t) == IncludesFrom(s, t, 1)

(* ---------------------------- Map<number, T> --------------------------- *)

MapKeys(m) == {m[i].key : i \in 1..Len(m)}

MapHas(m, k) == \E i \in 1..Len(m) : m[i].key = k

MapIndex(m, k) == CHOOSE i \in 1..Len(m) : m[i].key = k

MapGet(m, k) == IF MapHas(m, k) THEN m[MapIndex(m, k)].value ELSE Undefined

\* Map.set: an existing key keeps its position, a new key is appended
MapSet(m, k, v) ==
  IF MapHas(m, k)
  THEN [m EXCEPT ![MapIndex(m, k)] = [key |-> k, value |-> v]]
  ELSE Append(m, [key |-> k, value |-> v])

\* Map.delete: the entries and whether the key was present
MapDelete(m, k) ==
  [map |-> SelectSeq(m, LAMBDA e : e.key # k), ret |-> MapHas(m, k)]

\* Array.from(map.values())
MapValues(m) == [i \in 1..Len(m) |-> m[i].value]

(* --------------------------- MemStorage -------------------------------- *)

\* getUser: the value stored under the key, or undefined
getUser(us, id) == MapGet(us, id)

\* createUser that reads the counter without incrementing it
createUser_NoIncrement(us, nextId, insertUser) ==
  LET user == Spread(insertUser, [id |-> nextId])
  IN  [users |-> MapSet(us, nextId, user), userId |-> nextId, ret |-> user]

\* createUser: the users map, the counter and the returned user
createUser(us, nextId, insertUser) ==
  LET user == Spread(insertUser, [id |-> nextId])
  IN  [users |-> MapSet(us, nextId, user), userId |-> nextId + 1, ret |-> user]

\* getDevices: the values of the map, in the map's order
getDevices(devs) == MapValues(devs)

\* getDevice: the value stored under the key, or undefined
getDevice(devs, id) == MapGet(devs, id)

\* createDevice as { id, ...insertDevice }: a payload's own id property wins
createDevice_IdFirst(devs, nextId, insertDevice) ==
  LET device == Spread([id |-> nextId], insertDevice)
  IN  [devices |-> MapSet(devs, nextId, device), deviceId |-> nextId + 1,
       ret |-> device]

\* createDevice with the id taken from the map's size instead of the counter
createDevice_SizeId(devs, nextId, insertDevice) ==
  LET id == Len(devs) + 1
      device == Spread(insertDevice, [id |-> id])
  IN  [devices |-> MapSet(devs, id, device), deviceId |-> nextId + 1,
       ret |-> device]

\* createDevice that takes the lowest id no stored device has
createDevice_LowestFree(devs, nextId, insertDevice) ==
  LET id == CHOOSE n \in 1..(Len(devs) + 1) :
              /\ ~MapHas(devs, n)
              /\ \A m \in 1..(n - 1) : MapHas(devs, m)
      device == Spread(insertDevice, [id |-> id])
  IN  [devices |-> MapSet(devs, id, device), deviceId |-> nextId + 1,
       ret |-> device]

\* createDevice: the devices map, the counter and the returned device
createDevice(devs, nextId, insertDevice) ==
  LET device == Spread(insertDevice, [id |-> nextId])
  IN  [devices |-> MapSet(devs, nextId, device), deviceId |-> nextId + 1,
       ret |-> device]

\* updateDevice without the two lines that restore deviceType and deviceId
updateDevice_NoPin(devs, id, updates) ==
  LET device == MapGet(devs, id)
  IN  IF device = Undefined
      THEN [devices |-> devs, ret |-> Undefined]
      ELSE LET updatedDevice == Spread(device, updates)
           IN  [devices |-> MapSet(devs, id, updatedDevice),
                ret |-> updatedDevice]

\* updateDevice that deletes the entry and sets it again
updateDevice_Reinsert(devs, id, updates) ==
  LET device == MapGet(devs, id)
  IN  IF device = Undefined
      THEN [devices |-> devs, ret |-> Undefined]
      ELSE LET updatedDevice ==
                 Spread(Spread(device, updates),
                        [deviceType |-> device.deviceType,
                         deviceId |-> device.deviceId])
           IN  [devices |-> MapSet(MapDelete(devs, id).map, id, updatedDevice),
                ret |-> updatedDevice]

\* updateDevice that sets and returns the updates under an id that is not stored
updateDevice_Upsert(devs, id, updates) ==
  LET device == MapGet(devs, id)
  IN  IF device = Undefined
      THEN [devices |-> MapSet(devs, id, updates), ret |-> updates]
      ELSE LET updatedDevice ==
                 Spread(Spread(device, updates),
                        [deviceType |-> device.deviceType,
                         deviceId |-> device.deviceId])
           IN  [devices |-> MapSet(devs, id, updatedDevice),
                ret |-> updatedDevice]

\* updateDevice that spreads the updates first and the stored device over them
updateDevice_UpdatesFirst(devs, id, updates) ==
  LET device == MapGet(devs, id)
  IN  IF device = Undefined
      THEN [devices |-> devs, ret |-> Undefined]
      ELSE LET updatedDevice ==
                 Spread(Spread(updates, device),
                        [deviceType |-> device.deviceType,
                         deviceId |-> device.deviceId])
           IN  [devices |-> MapSet(devs, id, updatedDevice),
                ret |-> updatedDevice]

\* updateDevice: the devices map and the returned device, or undefined
updateDevice(devs, id, updates) ==
  LET device == MapGet(devs, id)
  IN  IF device = Undefined
      THEN [devices |-> devs, ret |-> Undefined]
      ELSE LET updatedDevice ==
                 Spread(Spread(device, updates),
                        [deviceType |-> device.deviceType,
                         deviceId |-> device.deviceId])
           IN  [devices |-> MapSet(devs, id, updatedDevice),
                ret |-> updatedDevice]

\* deleteDevice without the has() check, answering true whatever was removed
deleteDevice_AlwaysTrue(devs, id) ==
  [devices |-> MapDelete(devs, id).map, ret |-> TRUE]

\* deleteDevice that clears the map when the id is stored
deleteDevice_Clear(devs, id) ==
  IF ~MapHas(devs, id)
  THEN [devices |-> devs, ret |-> FALSE]
  ELSE [devices |-> <<>>, ret |-> TRUE]

\* deleteDevice: the devices map and the returned boolean
deleteDevice(devs, id) ==
  IF ~MapHas(devs, id)
  THEN [devices |-> devs, ret |-> FALSE]
  ELSE LET d == MapDelete(devs, id) IN [devices |-> d.map, ret |-> d.ret]

\* the filter callback with deviceId compared by equality
searchMatch_ExactId(device, criteria) ==
  LET typeMatch == Falsy(criteria, "deviceType")
                     \/ device.deviceType = criteria.deviceType
      idMatch   == Falsy(criteria, "deviceId")
                     \/ device.deviceId = criteria.deviceId
      otaMatch  == Falsy(criteria, "currentOTA")
                     \/ device.currentOTA = criteria.currentOTA
  IN  typeMatch /\ idMatch /\ otaMatch

\* the filter callback with the deviceType criterion required, not optional
searchMatch_TypeRequired(device, criteria) ==
  LET typeMatch == ~Falsy(criteria, "deviceType")
                     /\ device.deviceType = criteria.deviceType
      idMatch   == Falsy(criteria, "deviceId")
                     \/ includes(device.deviceId, criteria.deviceId)
      otaMatch  == Falsy(criteria, "currentOTA")
                     \/ device.currentOTA = criteria.currentOTA
  IN  typeMatch /\ idMatch /\ otaMatch

\* the filter callback of searchDevices
searchMatch(device, criteria) ==
  LET typeMatch == Falsy(criteria, "deviceType")
                     \/ device.deviceType = criteria.deviceType
      idMatch   == Falsy(criteria, "deviceId")
                     \/ includes(device.deviceId, criteria.deviceId)
      otaMatch  == Falsy(criteria, "currentOTA")
                     \/ device.currentOTA = criteria.currentOTA
  IN  typeMatch /\ idMatch /\ otaMatch

\* searchDevices: the values of the map that pass the filter, in the map's order
searchDevices(devs, criteria) ==
  SelectSeq(MapValues(devs), LAMBDA device : searchMatch(device, criteria))

(* ------------------------ MemStorage constructor ----------------------- *)

Dev(t, i, o, ip, u, p) ==
  [deviceType |-> t, deviceId |-> i, currentOTA |-> o, ipAddress |-> ip,
   sshUser |-> u, password |-> p]

adminUser == [username |-> "ubuntu", password |-> "EKM2800123Netra"]

initialDevices == <<
  Dev("Krait2", "6603041292", "4.6.10.rc.2_dev6", "172.16.16.141", "root", "EKM2020123Krait"),
  Dev("Krait2", "6603070196", "4.6.10.rc.2_dev6", "172.16.18.250", "root", "EKM2020123Krait"),
  Dev("Krait1", "264067598", "2.6.10.rc.1_dev7", "172.16.17.149", "root", "EKM2020123Krait"),
  Dev("Krait1", "264062606", "2.6.10.rc.1_dev7", "172.16.23.249", "root", "root"),
  Dev("Bagheera2", "3633042296", "3.6.10.rc.1_dev7", "172.16.17.235", "ubuntu", "ubuntu1"),
  Dev("Bagheera2", "3633039070", "3.6.10.rc.1_dev7", "172.16.18.72", "ubuntu", "ubuntu1"),
  Dev("Bagheera3", "103302400034", "5.6.10.rc.2_dev6", "172.16.19.252", "ubuntu", "ubuntu1"),
  Dev("Bagheera3", "103212400422", "5.6.10.rc.2_dev6", "172.16.20.9", "ubuntu", "ubuntu1"),
  Dev("Bagheera3", "103022400202", "5.6.10.rc.2_dev6", "172.16.18.37", "ubuntu", "ubuntu1"),
  Dev("Octo", "125222400003", "7.6.10.rc.1", "172.16.17.227", "ubuntu", "EKM2800123Netra"),
  Dev("Octo", "125122400018", "7.6.10.rc.1", "172.16.17.186", "ubuntu", "EKM2800123Netra"),
  Dev("Octo", "125122400021", "7.6.10.rc.1", "172.16.16.61", "ubuntu", "EKM2800123Netra") >>

\* initialDevices.forEach(device => this.createDevice(device)), from entry i on
RECURSIVE SeedDevices(_, _, _)
SeedDevices(devs, nextId, i) ==
  IF i > Len(initialDevices) THEN [devices |-> devs, deviceId |-> nextId]
  ELSE LET c == createDevice(devs, nextId, initialDevices[i])
       IN  SeedDevices(c.devices, c.deviceId, i + 1)

\* the store as the constructor leaves it
Constructed ==
  LET u == createUser(<<>>, 1, adminUser)
      d == SeedDevices(<<>>, 1, 1)
  IN  [users |-> u.users, userId |-> u.userId,
       devices |-> d.devices, deviceId |-> d.deviceId]

\* the counter value past which no further createDevice call is explored
MaxDeviceId == Constructed.deviceId + MaxCreates

(* -------------------------- shared/schema.ts --------------------------- *)

\* a JSON value of a request body, with its JavaScript type
JStr(s) == [t |-> "string", v |-> s]
JNum(n) == [t |-> "number", n |-> n]
JObj(o) == [t |-> "object", o |-> o]

Digit == {"0", "1", "2", "3", "4", "5", "6", "7", "8", "9"}

\* the characters s[from..to] are all decimal digits
AllDigits(s, from, to) == \A i \in from..to : SubSeq(s, i, i) \in Digit

\* /^[0-9]+$/
MatchesNumeric(s) == Len(s) >= 1 /\ AllDigits(s, 1, Len(s))

\* the ipAddress pattern with a range check: no three-digit group above 299
MatchesIp_Range(s) ==
  \E a \in 1..3, b \in 1..3, c \in 1..3, d \in 1..3 :
    /\ Len(s) = a + b + c + d + 3
    /\ AllDigits(s, 1, a)
    /\ SubSeq(s, a + 1, a + 1) = "."
    /\ AllDigits(s, a + 2, a + b + 1)
    /\ SubSeq(s, a + b + 2, a + b + 2) = "."
    /\ AllDigits(s, a + b + 3, a + b + c + 2)
    /\ SubSeq(s, a + b + c + 3, a + b + c + 3) = "."
    /\ AllDigits(s, a + b + c + 4, a + b + c + d + 3)
    /\ SubSeq(s, 1, 1) \in {"0", "1", "2"} \/ a < 3
    /\ SubSeq(s, a + 2, a + 2) \in {"0", "1", "2"} \/ b < 3
    /\ SubSeq(s, a + b + 3, a + b + 3) \in {"0", "1", "2"} \/ c < 3
    /\ SubSeq(s, a + b + c + 4, a + b + c + 4) \in {"0", "1", "2"} \/ d < 3

\* /^([0-9]{1,3}\.){3}[0-9]{1,3}$/
MatchesIp(s) ==
  \E a \in 1..3, b \in 1..3, c \in 1..3, d \in 1..3 :
    /\ Len(s) = a + b + c + d + 3
    /\ AllDigits(s, 1, a)
    /\ SubSeq(s, a + 1, a + 1) = "."
    /\ AllDigits(s, a + 2, a + b + 1)
    /\ SubSeq(s, a + b + 2, a + b + 2) = "."
    /\ AllDigits(s, a + b + 3, a + b + c + 2)
    /\ SubSeq(s, a + b + c + 3, a + b + c + 3) = "."
    /\ AllDigits(s, a + b + c + 4, a + b + c + d + 3)

\* z.string().min(1) on property k of a body
StringMin1(body, k) ==
  k \in DOMAIN body /\ body[k].t = "string" /\ Len(body[k].v) >= 1

\* z.string().optional() on property k of a body
StringOptional(body, k) == k \in DOMAIN body => body[k].t = "string"

DeviceFields ==
  {"deviceType", "deviceId", "currentOTA", "ipAddress", "sshUser", "password"}

SearchFields == {"deviceType", "deviceId", "currentOTA"}

\* deviceValidationSchema without the pattern of ipAddress
deviceValidationSchema_NoIpPattern(body) ==
  LET ok == /\ \A k \in DeviceFields : StringMin1(body, k)
            /\ MatchesNumeric(body.deviceId.v)
  IN  IF ok THEN [success |-> TRUE, data |-> [k \in DeviceFields |-> body[k].v]]
      ELSE [success |-> FALSE, data |-> Undefined]

\* deviceValidationSchema.safeParse: success, and the parsed data (the six
\* properties of the schema; z.object drops every other property)
deviceValidationSchema(body) ==
  LET ok == /\ \A k \in DeviceFields : StringMin1(body, k)
            /\ MatchesNumeric(body.deviceId.v)
            /\ MatchesIp(body.ipAddress.v)
  IN  IF ok THEN [success |-> TRUE, data |-> [k \in DeviceFields |-> body[k].v]]
      ELSE [success |-> FALSE, data |-> Undefined]

\* deviceSearchSchema.safeParse
deviceSearchSchema(body) ==
  IF \A k \in SearchFields : StringOptional(body, k)
  THEN [success |-> TRUE,
        data |-> [k \in SearchFields \cap DOMAIN body |-> body[k].v]]
  ELSE [success |-> FALSE, data |-> Undefined]

(* --------------------------- server/routes.ts -------------------------- *)

\* !body.k that takes only an absent property for missing
JFalsy_AbsentOnly(body, k) == k \notin DOMAIN body

\* !body.k for a JSON value: absent, "" or 0
JFalsy(body, k) ==
  \/ k \notin DOMAIN body
  \/ body[k].t = "string" /\ body[k].v = ""
  \/ body[k].t = "number" /\ body[k].n = 0

\* getUserByUsername: the first user with that username, or undefined
getUserByUsername(us, username) ==
  LET hits == SelectSeq(MapValues(us), LAMBDA user : user.username = username)
  IN  IF Len(hits) > 0 THEN hits[1] ELSE Undefined

\* Every handler of registerRoutes that awaits a storage method is an async
\* function.  The storage method runs to its end when it is called and
\* returns a promise that is already resolved; at the await the rest of the
\* handler is put on the microtask queue.  Each handler is therefore two or
\* three steps: the call, up to the first await, and one step after each
\* await.  In the results below status 0 stands for a handler that waits.

\* POST /api/auth/login, from the call to the await of getUserByUsername:
\* 400 when a property is missing, otherwise the user the store holds now
postLoginCalled(us, body) ==
  IF JFalsy(body, "username") \/ JFalsy(body, "password")
  THEN [status |-> 400, user |-> Undefined, calls |-> <<>>]
  ELSE [status |-> 0,
        user |-> IF body.username.t = "string"
                 THEN getUserByUsername(us, body.username.v)
                 ELSE Undefined,
        calls |-> <<"getUserByUsername">>]

\* POST /api/auth/login after its await, without the password comparison
postLoginResumed_NoPasswordCheck(sess, body, user) ==
  IF user = Undefined
  THEN [status |-> 401, session |-> sess]
  ELSE [status |-> 200, session |-> [id |-> user.id, username |-> user.username]]

\* POST /api/auth/login after its await: the password test on the user that
\* was read at the call, the session's user afterwards and the status
postLoginResumed(sess, body, user) ==
  IF user = Undefined
     \/ body.password.t # "string"
     \/ user.password # body.password.v
  THEN [status |-> 401, session |-> sess]
  ELSE [status |-> 200, session |-> [id |-> user.id, username |-> user.username]]

\* req.session.destroy: the session's user once destroy has been called.
\* express-session and the session store are not part of the sources; the
\* interface table of the specification gives the two outcomes of a logout,
\* 200 and "500 session-destroy failure": without an error the session is
\* gone, with an error it is as it was.
sessionDestroy(sess, err) == IF err THEN sess ELSE Undefined

\* the callback of POST /api/auth/logout that answers 200 whatever destroy
\* reports
postLogoutDestroyed_IgnoresErr(err) == [status |-> 200]

\* POST /api/auth/logout, the callback handed to req.session.destroy: 500
\* when destroy reports an error, otherwise 200
postLogoutDestroyed(err) == [status |-> IF err THEN 500 ELSE 200]

\* GET /api/auth/user
getAuthUser(sess) ==
  IF sess = Undefined THEN [status |-> 401, ret |-> Undefined]
  ELSE [status |-> 200, ret |-> sess]

\* checkAuth that lets every request through
checkAuth_Open(sess) == TRUE

\* checkAuth: whether next() is called
checkAuth(sess) == sess # Undefined

\* GET /api/devices, from the call to the await of getDevices: the list is
\* read now and answered after the await
getApiDevicesCalled(sess, devs) ==
  IF ~checkAuth(sess) THEN [status |-> 401, list |-> <<>>, calls |-> <<>>]
  ELSE [status |-> 0, list |-> getDevices(devs), calls |-> <<"getDevices">>]

\* POST /api/devices up to its first await, without the search for an
\* existing device
postApiDevicesCalled_NoPreCheck(sess, devs, body) ==
  IF ~checkAuth(sess) THEN [status |-> 401, existing |-> 0, calls |-> <<>>]
  ELSE IF ~deviceValidationSchema(body).success
       THEN [status |-> 400, existing |-> 0, calls |-> <<>>]
  ELSE [status |-> 0, existing |-> 0, calls |-> <<"searchDevices">>]

\* POST /api/devices from the call to the await of searchDevices: checkAuth,
\* safeParse, and existingDevices.length as the store is now
postApiDevicesCalled(sess, devs, body) ==
  LET validationResult == deviceValidationSchema(body)
      newDevice == validationResult.data
      existingDevices ==
        searchDevices(devs, [deviceType |-> newDevice.deviceType,
                             deviceId |-> newDevice.deviceId])
  IN  IF ~checkAuth(sess) THEN [status |-> 401, existing |-> 0, calls |-> <<>>]
      ELSE IF ~validationResult.success
           THEN [status |-> 400, existing |-> 0, calls |-> <<>>]
      ELSE [status |-> 0, existing |-> Len(existingDevices),
            calls |-> <<"searchDevices">>]

\* POST /api/devices after its first await, rejecting only when more than
\* one device was found
postApiDevicesSearched_MoreThanOne(devs, nextId, body, existing) ==
  LET c == createDevice(devs, nextId, deviceValidationSchema(body).data)
  IN  IF existing > 1
      THEN [status |-> 409, ret |-> Undefined, devices |-> devs,
            deviceId |-> nextId, calls |-> <<"searchDevices">>]
      ELSE [status |-> 0, ret |-> c.ret, devices |-> c.devices,
            deviceId |-> c.deviceId,
            calls |-> <<"searchDevices", "createDevice">>]

\* POST /api/devices after its first await, without the length test
postApiDevicesSearched_NoLengthTest(devs, nextId, body, existing) ==
  LET c == createDevice(devs, nextId, deviceValidationSchema(body).data)
  IN  [status |-> 0, ret |-> c.ret, devices |-> c.devices,
       deviceId |-> c.deviceId,
       calls |-> <<"searchDevices", "createDevice">>]

\* POST /api/devices from its first await to the await of createDevice: the
\* length test on what was found at the call, and createDevice on the store
\* as it is now
postApiDevicesSearched(devs, nextId, body, existing) ==
  LET c == createDevice(devs, nextId, deviceValidationSchema(body).data)
  IN  IF existing > 0
      THEN [status |-> 409, ret |-> Undefined, devices |-> devs,
            deviceId |-> nextId, calls |-> <<"searchDevices">>]
      ELSE [status |-> 0, ret |-> c.ret, devices |-> c.devices,
            deviceId |-> c.deviceId,
            calls |-> <<"searchDevices", "createDevice">>]

\* POST /api/devices/search, from the call to the await of searchDevices
postApiDevicesSearchCalled(sess, devs, body) ==
  LET validationResult == deviceSearchSchema(body)
  IN  IF ~checkAuth(sess) THEN [status |-> 401, list |-> <<>>, calls |-> <<>>]
      ELSE IF ~validationResult.success
           THEN [status |-> 400, list |-> <<>>, calls |-> <<>>]
      ELSE [status |-> 0, list |-> searchDevices(devs, validationResult.data),
            calls |-> <<"searchDevices">>]

\* the white space parseInt skips: TAB, LF, VT, FF, CR, SPACE, U+00A0,
\* U+1680 and U+FEFF.  StrWhiteSpaceChar has, besides these, U+2000 to
\* U+200A, U+2028, U+2029, U+202F, U+205F and U+3000, which a string of
\* this module cannot hold.
WhiteSpace ==
  {" ", "\t", "\n", "\r", "\f", "", " ", " ", "﻿"}

HexDigit ==
  Digit \cup {"a", "b", "c", "d", "e", "f", "A", "B", "C", "D", "E", "F"}

\* the value of the digit character c, decimal or hexadecimal
DigitValue(c) ==
  CHOOSE n \in 0..15 : \/ SubSeq("0123456789abcdef", n + 1, n + 1) = c
                       \/ SubSeq("0123456789ABCDEF", n + 1, n + 1) = c

\* the number of leading characters of s from position i on that are in set
RECURSIVE Run(_, _, _)
Run(s, i, set) ==
  IF i <= Len(s) /\ SubSeq(s, i, i) \in set THEN 1 + Run(s, i + 1, set) ELSE 0

\* the value of the digit string s[from..to] in the radix
RECURSIVE Numeral(_, _, _, _)
Numeral(s, from, to, radix) ==
  IF to < from THEN 0
  ELSE radix * Numeral(s, from, to - 1, radix) + DigitValue(SubSeq(s, to, to))

\* parseInt(s) without a radix: leading white space and one sign are
\* skipped; after a prefix 0x or 0X the digits are hexadecimal, otherwise
\* decimal; the longest run of digits is the value, whatever follows it,
\* and the result is NaN when there is no digit
parseInt(s) ==
  LET ws     == Run(s, 1, WhiteSpace)
      sign   == IF Run(s, ws + 1, {"+", "-"}) > 0 THEN 1 ELSE 0
      neg    == sign = 1 /\ SubSeq(s, ws + 1, ws + 1) = "-"
      first  == ws + sign + 1
      hex    == first + 1 <= Len(s) /\ SubSeq(s, first, first + 1) \in {"0x", "0X"}
      start  == IF hex THEN first + 2 ELSE first
      radix  == IF hex THEN 16 ELSE 10
      n      == Run(s, start, IF hex THEN HexDigit ELSE Digit)
      value  == Numeral(s, start, start + n - 1, radix)
  IN  IF n = 0 THEN [nan |-> TRUE, n |-> 0]
      ELSE [nan |-> FALSE, n |-> IF neg THEN 0 - value ELSE value]

\* PUT /api/devices/:id, from the call to the await of getDevice: checkAuth,
\* parseInt, isNaN, and the device the store holds now
putApiDevicesCalled(sess, devs, param) ==
  LET id == parseInt(param)
  IN  IF ~checkAuth(sess) THEN [status |-> 401, ret |-> Undefined, calls |-> <<>>]
      ELSE IF id.nan THEN [status |-> 400, ret |-> Undefined, calls |-> <<>>]
      ELSE [status |-> 0, ret |-> getDevice(devs, id.n), calls |-> <<"getDevice">>]

\* PUT /api/devices/:id after its await: 404 when no device was found.  The
\* handler then reads updateDeviceSchema, which routes.ts neither imports
\* nor declares: evaluating it throws a ReferenceError, which the handler's
\* catch answers with 500.  storage.updateDevice is never reached, so the
\* store is as before in every case.
putApiDevicesResumed(device) ==
  IF device = Undefined THEN [status |-> 404] ELSE [status |-> 500]

\* DELETE /api/devices/:id: registerRoutes registers no handler for it, so
\* no storage method is called.  The request passes every route of this
\* file and is answered by whatever the application registers after
\* registerRoutes, which is not part of the sources: the status is any of
\* UnroutedStatuses.
deleteApiDevices(sess, devs, param, status) == [status |-> status, calls |-> <<>>]

\* what a request that no route of registerRoutes matches can be answered:
\* 404 by the framework's final handler, 200 by a catch-all page handler
UnroutedStatuses == {200, 404}

(* ------------------------------ inputs --------------------------------- *)

\* the id the first createDevice call after construction assigns
FirstNewId == Constructed.deviceId

\* an id no createDevice call ever assigns within the bound
NeverId == MaxDeviceId + 50

\* ids handed to getDevice, updateDevice and deleteDevice
CallIds == {1, FirstNewId, NeverId}

NewPayload == Dev("Krait2", "77", "4.6.10.rc.2_dev6", "10.0.0.7", "root", "pw")

\* the pair (deviceType, deviceId) of the first seeded device
DupPayload == Dev("Krait2", "6603041292", "4.0.2.rc.1", "10.0.0.8", "admin", "pw")

\* a deviceId that is a proper substring of seeded deviceIds of the same type
SubPayload == Dev("Krait2", "660", "4.0.2.rc.1", "999.999.999.999", "root", "pw")

\* a payload object that carries an id property of its own
IdPayload == Spread(NewPayload, [id |-> 99])

CreatePayloads == {NewPayload, DupPayload, SubPayload, IdPayload}

UpdatePayloads ==
  { EmptyObject,
    [deviceType |-> "Octo", deviceId |-> "1", currentOTA |-> "7.0.0.rc.1",
     ipAddress |-> "10.0.0.9", sshUser |-> "admin"],
    [id |-> 99, password |-> "pw2"] }

Criteria ==
  { EmptyObject,
    [deviceId |-> "660"],
    [deviceId |-> "77"],
    [deviceType |-> "Krait2", deviceId |-> "6603041292"],
    [deviceType |-> "", deviceId |-> "", currentOTA |-> "7.6.10.rc.1"],
    [deviceType |-> "Octo", currentOTA |-> "4.0.2.rc.1"] }

\* the JSON body that carries the device fields of p as strings
DeviceBody(p) == [k \in DeviceFields |-> JStr(p[k])]

\* a valid pair that no seeded device has
OtherPayload == Dev("Octo", "88", "7.0.0.rc.1", "10.0.0.9", "ubuntu", "pw")

\* the pair NewPayload has, with other values in the remaining fields
SamePairPayload == Dev("Krait2", "77", "4.0.2.rc.1", "10.0.0.70", "admin", "pw7")

\* the bodies of POST /api/devices requests that fail deviceValidationSchema
InvalidDeviceBodies ==
  { Spread(DeviceBody(NewPayload), [ipAddress |-> JStr("abc")]),
    Spread(DeviceBody(DupPayload), [password |-> JStr("")]),
    [deviceType |-> JStr("Krait2"), deviceId |-> JNum(77)] }

\* the bodies of POST /api/devices requests
DeviceBodies ==
  { DeviceBody(NewPayload), DeviceBody(DupPayload), DeviceBody(SubPayload),
    DeviceBody(OtherPayload), DeviceBody(SamePairPayload) } \cup InvalidDeviceBodies

SearchBodies ==
  { EmptyObject,
    [deviceType |-> JStr("Krait2"), deviceId |-> JStr("77"), currentOTA |-> JStr("")],
    [deviceId |-> JNum(660)] }

LoginBodies ==
  { [username |-> JStr("ubuntu"), password |-> JStr("EKM2800123Netra")],
    [username |-> JStr("ubuntu"), password |-> JStr("wrong")],
    [username |-> JStr("nobody"), password |-> JStr("EKM2800123Netra")],
    [username |-> JStr("ubuntu")],
    [username |-> JStr(""), password |-> JStr("x")] }

\* the :id path parameters of PUT requests
IdParams == {"1", "999", "abc", "12abc", "0xC", "\t1"}

\* the :id path parameters of DELETE requests
DeleteParams == {"1", "999"}

\* the bodies of PUT /api/devices/:id requests
PutBodies ==
  { [currentOTA |-> JStr("4.0.2.rc.1"), ipAddress |-> JStr("10.0.0.9")] }

Usernames == {"ubuntu", "nobody"}

(* --------------------------- the state machine ------------------------- *)

\* the record of a call or request, before its arguments and results are
\* filled in: id and arg are the arguments of a store call, body is the JSON
\* body of a request; ret is a returned object, list a returned array, bool
\* a returned boolean, status the HTTP status of a response.  The pre
\* fields are the state when the call is made.
Call(op) ==
  [op |-> op, id |-> 0, arg |-> Undefined, body |-> Undefined,
   ret |-> Undefined, list |-> <<>>, bool |-> FALSE, status |-> 0,
   param |-> "", calls |-> <<>>,
   pre |-> devices, preDeviceId |-> deviceId, preDeleted |-> deleted,
   preSession |-> session]

Init ==
  /\ users = Constructed.users
  /\ userId = Constructed.userId
  /\ devices = Constructed.devices
  /\ deviceId = Constructed.deviceId
  /\ session = Undefined
  /\ created = [i \in 1..Len(initialDevices) |-> i]
  /\ deleted = {}
  /\ waiting = <<>>
  /\ last = [op |-> "constructor", id |-> 0, arg |-> Undefined, body |-> Undefined,
             ret |-> Undefined, list |-> <<>>, bool |-> FALSE, status |-> 0,
             param |-> "", calls |-> <<>>,
             pre |-> <<>>, preDeviceId |-> 1, preDeleted |-> {},
             preSession |-> Undefined]

(* the methods of MemStorage: each runs to its end when it is called *)

CreateDevice(insertDevice) ==
  LET c == createDevice(devices, deviceId, insertDevice)
  IN  /\ deviceId < MaxDeviceId
      /\ devices' = c.devices
      /\ deviceId' = c.deviceId
      /\ created' = Append(created, c.ret.id)
      /\ last' = [Call("createDevice") EXCEPT !.arg = insertDevice, !.ret = c.ret]
      /\ UNCHANGED <<users, userId, session, deleted, waiting>>

UpdateDevice(id, updates) ==
  LET u == updateDevice(devices, id, updates)
  IN  /\ devices' = u.devices
      /\ last' = [Call("updateDevice") EXCEPT !.id = id, !.arg = updates, !.ret = u.ret]
      /\ UNCHANGED <<users, userId, deviceId, session, created, deleted, waiting>>

DeleteDevice(id) ==
  LET d == deleteDevice(devices, id)
  IN  /\ devices' = d.devices
      /\ deleted' = IF d.ret THEN deleted \cup {id} ELSE deleted
      /\ last' = [Call("deleteDevice") EXCEPT !.id = id, !.bool = d.ret]
      /\ UNCHANGED <<users, userId, deviceId, session, created, waiting>>

GetDevices ==
  /\ last' = [Call("getDevices") EXCEPT !.list = getDevices(devices)]
  /\ UNCHANGED <<users, userId, devices, deviceId, session, created, deleted, waiting>>

GetDevice(id) ==
  /\ last' = [Call("getDevice") EXCEPT !.id = id, !.ret = getDevice(devices, id)]
  /\ UNCHANGED <<users, userId, devices, deviceId, session, created, deleted, waiting>>

SearchDevices(criteria) ==
  /\ last' = [Call("searchDevices") EXCEPT
                !.arg = criteria, !.list = searchDevices(devices, criteria)]
  /\ UNCHANGED <<users, userId, devices, deviceId, session, created, deleted, waiting>>

GetUserByUsername(username) ==
  /\ last' = [Call("getUserByUsername") EXCEPT
                !.arg = [username |-> username],
                !.ret = getUserByUsername(users, username)]
  /\ UNCHANGED <<users, userId, devices, deviceId, session, created, deleted, waiting>>

(* the handlers of registerRoutes on the event loop *)

\* registerRoutes hands its handlers to the application, and nothing in a
\* handler refuses a call made while other handlers wait: a handler can be
\* called whenever fewer than MaxWaiting handlers wait.
HandlerCallable == Len(waiting) < MaxWaiting

\* When a handler is called is decided by the application that calls
\* registerRoutes, by the framework and by the runtime, none of which is
\* part of the sources.  The specification's concurrency model is a
\* single-threaded event-processing model with request-at-a-time semantics:
\* a handler is called when no other handler waits, and it goes on at its
\* awaits, and answers, before the next one is called.
RequestAtATime == waiting = <<>>

\* a handler that waits, at an await or for the callback of destroy: where
\* it stands, the response it is building, its locals user and
\* existingDevices.length, and the err that destroy will report
Waiting(pc, resp, user, existing) ==
  [pc |-> pc, resp |-> resp, user |-> user, existing |-> existing, err |-> FALSE]

\* what last holds after a step that ends at an await and answers nothing
Await(resp) == [resp EXCEPT !.op = "await " \o resp.op]

\* the place in waiting of the handler that goes on next at its await, 0
\* when none waits at an await: the continuations of awaits run in the
\* order in which the handlers began to wait
NextAwaited ==
  LET is == {i \in 1..Len(waiting) : waiting[i].pc # "destroy"}
  IN  IF is = {} THEN 0 ELSE CHOOSE i \in is : \A j \in is : i <= j

\* the handler that goes on next at its await
Resumed == waiting[NextAwaited]

\* waiting once the handler at place i has left it
Removed(i) == SubSeq(waiting, 1, i - 1) \o SubSeq(waiting, i + 1, Len(waiting))

\* the handler that goes on next at its await is the one of route op that
\* waits at pc
Resumes(op, pc) ==
  /\ NextAwaited # 0
  /\ Resumed.resp.op = op
  /\ Resumed.pc = pc

\* the handler is called and its response is either sent before its first
\* await, with the status, or left to the continuation w
Answer(resp, status, w) ==
  IF status # 0
  THEN /\ last' = [resp EXCEPT !.status = status]
       /\ UNCHANGED waiting
  ELSE /\ last' = Await(resp)
       /\ waiting' = Append(waiting, w)

\* POST /api/auth/login is called
PostLogin(body) ==
  LET r == postLoginCalled(users, body)
      resp == [Call("POST /api/auth/login") EXCEPT !.body = body, !.calls = r.calls]
  IN  /\ HandlerCallable
      /\ Answer(resp, r.status, Waiting("called", resp, r.user, 0))
      /\ UNCHANGED <<users, userId, devices, deviceId, session, created, deleted>>

\* POST /api/auth/login goes on after its await
PostLoginResumed ==
  LET w == Resumed
      r == postLoginResumed(session, w.resp.body, w.user)
  IN  /\ Resumes("POST /api/auth/login", "called")
      /\ session' = r.session
      /\ last' = [w.resp EXCEPT !.status = r.status]
      /\ waiting' = Removed(NextAwaited)
      /\ UNCHANGED <<users, userId, devices, deviceId, created, deleted>>

\* POST /api/auth/logout is called: req.session.destroy is called with the
\* callback that answers.  Whether destroy reports an error, and whether it
\* calls back before it returns or later, is decided by the session store.
PostLogout(err, sync) ==
  LET resp == Call("POST /api/auth/logout")
  IN  /\ HandlerCallable
      /\ session' = sessionDestroy(session, err)
      /\ IF sync
         THEN /\ last' = [resp EXCEPT !.status = postLogoutDestroyed(err).status]
              /\ UNCHANGED waiting
         ELSE /\ last' = Await(resp)
              /\ waiting' = Append(waiting,
                     [Waiting("destroy", resp, Undefined, 0) EXCEPT !.err = err])
      /\ UNCHANGED <<users, userId, devices, deviceId, created, deleted>>

\* req.session.destroy calls the callback of POST /api/auth/logout back,
\* with the error or without
PostLogoutDestroyed ==
  \E i \in 1..Len(waiting) :
    /\ waiting[i].pc = "destroy"
    /\ last' = [waiting[i].resp EXCEPT
                  !.status = postLogoutDestroyed(waiting[i].err).status]
    /\ waiting' = Removed(i)
    /\ UNCHANGED <<users, userId, devices, deviceId, session, created, deleted>>

GetAuthUser ==
  LET r == getAuthUser(session)
  IN  /\ HandlerCallable
      /\ last' = [Call("GET /api/auth/user") EXCEPT
                    !.ret = r.ret, !.status = r.status]
      /\ UNCHANGED <<users, userId, devices, deviceId, session, created, deleted, waiting>>

\* GET /api/devices is called
GetApiDevices ==
  LET r == getApiDevicesCalled(session, devices)
      resp == [Call("GET /api/devices") EXCEPT !.list = r.list, !.calls = r.calls]
  IN  /\ HandlerCallable
      /\ Answer(resp, r.status, Waiting("called", resp, Undefined, 0))
      /\ UNCHANGED <<users, userId, devices, deviceId, session, created, deleted>>

\* GET /api/devices goes on after its await: 200 with the list read at the
\* call
GetApiDevicesResumed ==
  /\ Resumes("GET /api/devices", "called")
  /\ last' = [Resumed.resp EXCEPT !.status = 200]
  /\ waiting' = Removed(NextAwaited)
  /\ UNCHANGED <<users, userId, devices, deviceId, session, created, deleted>>

\* the (deviceType, deviceId) pair of a body that passes the device schema
PairOf(body) ==
  [deviceType |-> body.deviceType.v, deviceId |-> body.deviceId.v]

\* POST /api/devices is called
PostApiDevices(body) ==
  LET r == postApiDevicesCalled(session, devices, body)
      resp == [Call("POST /api/devices") EXCEPT !.body = body, !.calls = r.calls]
  IN  /\ HandlerCallable
      /\ r.status = 0 /\ r.existing = 0 => deviceId < MaxDeviceId
      /\ Answer(resp, r.status, Waiting("called", resp, Undefined, r.existing))
      /\ UNCHANGED <<users, userId, devices, deviceId, session, created, deleted>>

\* POST /api/devices goes on after its first await: the length test, and the
\* call of storage.createDevice up to the second await
PostApiDevicesSearched ==
  LET w == Resumed
      r == postApiDevicesSearched(devices, deviceId, w.resp.body, w.existing)
      resp == [w.resp EXCEPT !.ret = r.ret, !.calls = r.calls]
  IN  /\ Resumes("POST /api/devices", "called")
      /\ devices' = r.devices
      /\ deviceId' = r.deviceId
      /\ IF r.status # 0
         THEN /\ last' = [resp EXCEPT !.status = r.status]
              /\ waiting' = Removed(NextAwaited)
              /\ UNCHANGED created
         ELSE /\ last' = Await(resp)
              /\ waiting' = Append(Removed(NextAwaited), [w EXCEPT !.pc = "created", !.resp = resp])
              /\ created' = Append(created, r.ret.id)
      /\ UNCHANGED <<users, userId, session, deleted>>

\* POST /api/devices goes on after its second await: 201 with the device
PostApiDevicesCreated ==
  /\ Resumes("POST /api/devices", "created")
  /\ last' = [Resumed.resp EXCEPT !.status = 201]
  /\ waiting' = Removed(NextAwaited)
  /\ UNCHANGED <<users, userId, devices, deviceId, session, created, deleted>>

\* POST /api/devices/search is called
PostApiDevicesSearch(body) ==
  LET r == postApiDevicesSearchCalled(session, devices, body)
      resp == [Call("POST /api/devices/search") EXCEPT
                 !.body = body, !.list = r.list, !.calls = r.calls]
  IN  /\ HandlerCallable
      /\ Answer(resp, r.status, Waiting("called", resp, Undefined, 0))
      /\ UNCHANGED <<users, userId, devices, deviceId, session, created, deleted>>

\* POST /api/devices/search goes on after its await: 200 with the list
\* found at the call
PostApiDevicesSearchResumed ==
  /\ Resumes("POST /api/devices/search", "called")
  /\ last' = [Resumed.resp EXCEPT !.status = 200]
  /\ waiting' = Removed(NextAwaited)
  /\ UNCHANGED <<users, userId, devices, deviceId, session, created, deleted>>

\* PUT /api/devices/:id is called
PutApiDevices(param, body) ==
  LET r == putApiDevicesCalled(session, devices, param)
      resp == [Call("PUT /api/devices/:id") EXCEPT
                 !.param = param, !.body = body, !.ret = r.ret, !.calls = r.calls]
  IN  /\ HandlerCallable
      /\ Answer(resp, r.status, Waiting("called", resp, Undefined, 0))
      /\ UNCHANGED <<users, userId, devices, deviceId, session, created, deleted>>

\* PUT /api/devices/:id goes on after its await: 404 or 500, with no body
PutApiDevicesResumed ==
  LET w == Resumed
  IN  /\ Resumes("PUT /api/devices/:id", "called")
      /\ last' = [w.resp EXCEPT !.status = putApiDevicesResumed(w.resp.ret).status,
                                !.ret = Undefined]
      /\ waiting' = Removed(NextAwaited)
      /\ UNCHANGED <<users, userId, devices, deviceId, session, created, deleted>>

DeleteApiDevices(param, status) ==
  LET r == deleteApiDevices(session, devices, param, status)
  IN  /\ HandlerCallable
      /\ last' = [Call("DELETE /api/devices/:id") EXCEPT
                    !.param = param, !.status = r.status, !.calls = r.calls]
      /\ UNCHANGED <<users, userId, devices, deviceId, session, created, deleted, waiting>>

\* addDeviceMutation.mutationFn: the body the add-device form posts
addDeviceMutation(data, adminPassword) ==
  [deviceData |-> JObj(DeviceBody(data)), password |-> JStr(adminPassword)]

\* values of the add-device form that pass its resolver
FormValues == {NewPayload}

\* what the user types into the form's password dialog: Confirm is disabled
\* while the field is empty
AdminPasswords == {"EKM2800123Netra", "wrong"}

\* the bodies of the POST /api/devices requests the add-device form sends
FormBodies ==
  {addDeviceMutation(d, pw) : d \in FormValues, pw \in AdminPasswords}

\* the handlers of registerRoutes, each called with a request
Handlers ==
  \/ \E b \in LoginBodies : PostLogin(b)
  \/ \E err \in BOOLEAN, sync \in BOOLEAN : PostLogout(err, sync)
  \/ GetAuthUser
  \/ GetApiDevices
  \/ \E b \in DeviceBodies \cup FormBodies : PostApiDevices(b)
  \/ \E b \in SearchBodies : PostApiDevicesSearch(b)
  \/ \E p \in IdParams, b \in PutBodies : PutApiDevices(p, b)
  \/ \E p \in DeleteParams, st \in UnroutedStatuses : DeleteApiDevices(p, st)

\* the handlers that wait go on: at their awaits, and in the callback of
\* destroy
Continuations ==
  \/ PostLoginResumed
  \/ PostLogoutDestroyed
  \/ GetApiDevicesResumed
  \/ PostApiDevicesSearched
  \/ PostApiDevicesCreated
  \/ PostApiDevicesSearchResumed
  \/ PutApiDevicesResumed

\* the requests to the server: every change of the store is made by a
\* handler of registerRoutes, and every handler goes on at its awaits
Next == Handlers \/ Continuations

Spec == Init /\ [][Next]_vars

\* the requests to the server under the request-at-a-time semantics of the
\* specification
NextSerial == (RequestAtATime /\ Handlers) \/ Continuations

SpecSerial == Init /\ [][NextSerial]_vars

(* ------------------- the device methods on their own ------------------- *)

\* the device methods of MemStorage, called in any order
NextDevices ==
  \/ \E p \in CreatePayloads : CreateDevice(p)
  \/ \E id \in CallIds, u \in UpdatePayloads : UpdateDevice(id, u)
  \/ \E id \in CallIds : DeleteDevice(id)
  \/ GetDevices
  \/ \E id \in CallIds : GetDevice(id)
  \/ \E c \in Criteria : SearchDevices(c)

SpecDevices == Init /\ [][NextDevices]_vars

(* ------------------------ the store on its own ------------------------- *)

\* the counter value past which no further createUser call is explored
MaxUserId == Constructed.userId + MaxUserCreates

UserPayloads ==
  { [username |-> "alice", password |-> "a"],
    [username |-> "ubuntu", password |-> "other"] }

\* ids handed to getUser
UserIds == {2, 9}

CreateUser(insertUser) ==
  LET c == createUser(users, userId, insertUser)
  IN  /\ userId < MaxUserId
      /\ users' = c.users
      /\ userId' = c.userId
      /\ last' = [Call("createUser") EXCEPT !.arg = insertUser, !.ret = c.ret]
      /\ UNCHANGED <<devices, deviceId, session, created, deleted, waiting>>

GetUser(id) ==
  /\ last' = [Call("getUser") EXCEPT !.id = id, !.ret = getUser(users, id)]
  /\ UNCHANGED <<users, userId, devices, deviceId, session, created, deleted, waiting>>

\* the methods of IStorage, called in any order
NextStore ==
  \/ \E u \in UserPayloads : CreateUser(u)
  \/ \E id \in UserIds : GetUser(id)
  \/ \E u \in Usernames : GetUserByUsername(u)
  \/ CreateDevice(NewPayload)
  \/ \E id \in CallIds, u \in UpdatePayloads \ {EmptyObject} : UpdateDevice(id, u)
  \/ \E id \in CallIds : DeleteDevice(id)
  \/ GetDevices
  \/ \E id \in CallIds : GetDevice(id)
  \/ SearchDevices([deviceId |-> "77"])

SpecStore == Init /\ [][NextStore]_vars

(* ----------------------- the schema on its own ------------------------- *)

\* object b without its property k
Without(b, k) == [x \in (DOMAIN b) \ {k} |-> b[x]]

DeviceIdValues == {"77", "007", "", "12a", "-1", "1.5", " 1"}

IpAddressValues ==
  {"999.999.999.999", "abc", "1.2.3", "1.2.3.4", "1234.1.1.1", "1.2.3.4.5", "",
   "1..2.3", "a.b.c.d", "1.2.3.4 ", ".1.2.3", "1.2.3."}

OtherProperties ==
  { EmptyObject,
    [deviceType |-> JStr("")],
    [currentOTA |-> JStr("")],
    [sshUser |-> JStr("")],
    [password |-> JStr("")],
    [password |-> JNum(1)],
    [sshUser |-> JStr(" ")],
    [note |-> JStr("x")] }

\* the bodies handed to deviceValidationSchema.safeParse
SchemaBodies ==
  LET full == { Spread(Spread(DeviceBody(NewPayload),
                              [deviceId |-> JStr(i), ipAddress |-> JStr(p)]), o) :
                  i \in DeviceIdValues, p \in IpAddressValues, o \in OtherProperties }
  IN  full \cup { Without(DeviceBody(SubPayload), k) : k \in DeviceFields }
           \cup { Spread(DeviceBody(NewPayload), [deviceId |-> JNum(77)]) }

SafeParseDevice(body) ==
  LET r == deviceValidationSchema(body)
  IN  /\ last' = [Call("deviceValidationSchema.safeParse") EXCEPT
                    !.body = body, !.bool = r.success, !.ret = r.data]
      /\ UNCHANGED <<users, userId, devices, deviceId, session, created, deleted, waiting>>

NextSchema == \E b \in SchemaBodies : SafeParseDevice(b)

SpecSchema == Init /\ [][NextSchema]_vars

(* ------------------- the objects the store hands out ------------------- *)

\* The keys of the map entries whose value objects the last call returned.
\* createDevice returns the object it has just set, getDevice the object
\* the map holds, updateDevice the object it has just set, getDevices and
\* searchDevices a new array of the objects the map holds.
Returned ==
  CASE last.op = "createDevice" -> <<last.preDeviceId>>
    [] last.op \in {"getDevice", "updateDevice"} ->
         IF last.ret = Undefined THEN <<>> ELSE <<last.id>>
    [] last.op = "getDevices" -> [i \in 1..Len(devices) |-> devices[i].key]
    [] last.op = "searchDevices" ->
         LET hits == SelectSeq(devices,
                               LAMBDA e : searchMatch(e.value, last.arg))
         IN  [i \in 1..Len(hits) |-> hits[i].key]
    [] last.op = "Object.assign" -> <<last.id>>
    [] OTHER -> <<>>

\* what a caller assigns to a device it was handed
CallerWrites == { [ipAddress |-> "6.6.6.6"], [deviceId |-> "0"] }

\* the positions of a returned array a caller writes through
CallerPicks == {1}

\* Object.assign(device, w) by the caller, on the i-th device the last call
\* returned: the object is the one the map holds, so the map's entry changes
CallerAssigns(i, w) ==
  /\ i \in 1..Len(Returned)
  /\ LET k == Returned[i]
         written == Spread(MapGet(devices, k), w)
     IN  /\ devices' = MapSet(devices, k, written)
         /\ last' = [Call("Object.assign") EXCEPT
                       !.id = k, !.arg = w, !.ret = written]
  /\ UNCHANGED <<users, userId, deviceId, session, created, deleted, waiting>>

\* the store's device methods that return devices, and a caller that writes
\* to what it was handed
NextAlias ==
  \/ CreateDevice(NewPayload)
  \/ \E id \in CallIds : UpdateDevice(id, [currentOTA |-> "7.0.0.rc.1"])
  \/ GetDevices
  \/ \E id \in CallIds : GetDevice(id)
  \/ \E c \in {EmptyObject, [deviceId |-> "77"]} : SearchDevices(c)
  \/ \E i \in CallerPicks, w \in CallerWrites : CallerAssigns(i, w)

SpecAlias == Init /\ [][NextAlias]_vars

(* ------------------------------ claims --------------------------------- *)

\* the record under key k of map m, where k is known to be a key
Stored(m, k) == m[MapIndex(m, k)].value

\* the i-th smallest key of map m
KthKey(m, i) ==
  CHOOSE k \in MapKeys(m) : Cardinality({x \in MapKeys(m) : x < k}) = i - 1

\* t occurs in s as a substring
Contains(s, t) == \E i \in 1..(Len(s) + 1), j \in 0..Len(s) : SubSeq(s, i, j) = t

\* a criterion that is absent or empty
NoCriterion(c, k) == k \notin DOMAIN c \/ c[k] = ""

\* the search contract: AND of the three criteria
Wanted(d, c) ==
  /\ NoCriterion(c, "deviceType") \/ d.deviceType = c.deviceType
  /\ NoCriterion(c, "deviceId") \/ Contains(d.deviceId, c.deviceId)
  /\ NoCriterion(c, "currentOTA") \/ d.currentOTA = c.currentOTA

\* some record of map m has the pair (deviceType, deviceId) of d
PairStored(m, d) ==
  \E i \in 1..Len(m) : /\ m[i].value.deviceType = d.deviceType
                       /\ m[i].value.deviceId = d.deviceId

\* C1: createDevice(payload) followed immediately by getDevice(returned.id)
\* yields the record createDevice returned, which is the payload's six
\* fields plus the assigned id.
C1_CreateThenGet ==
  last.op = "createDevice" =>
    /\ getDevice(devices, last.ret.id) = last.ret
    /\ last.ret = [k \in DeviceFields \cup {"id"} |->
                     IF k = "id" THEN last.preDeviceId ELSE last.arg[k]]

C1_Witness ==
  /\ last.op = "createDevice"
  /\ "id" \in DOMAIN last.arg
  /\ last.arg.id # last.ret.id
  /\ getDevice(devices, last.ret.id) = last.ret

\* C2: the ids createDevice returns start at 1 and strictly increase over
\* any sequence of create, update and delete calls, so none is ever reused,
\* also not the id of a device deleted since.
C2_IdsMonotonic ==
  /\ created[1] = 1
  /\ \A i \in 1..Len(created), j \in 1..Len(created) :
       i < j => created[i] < created[j]

C2_Witness ==
  /\ last.op = "createDevice"
  /\ last.preDeleted = {1, FirstNewId}
  /\ last.ret.id = FirstNewId + 1

\* C3: updateDevice on a stored id leaves deviceType and deviceId of the
\* stored record and of the returned record as they were before the call,
\* whatever the payload carries for them.
C3_UpdateKeepsTypeAndDeviceId ==
  last.op = "updateDevice" /\ MapHas(last.pre, last.id) =>
    LET before == Stored(last.pre, last.id)
        after  == getDevice(devices, last.id)
    IN  /\ last.ret.deviceType = before.deviceType
        /\ last.ret.deviceId = before.deviceId
        /\ after.deviceType = before.deviceType
        /\ after.deviceId = before.deviceId

C3_Witness ==
  /\ last.op = "updateDevice"
  /\ MapHas(last.pre, last.id)
  /\ "deviceType" \in DOMAIN last.arg
  /\ "deviceId" \in DOMAIN last.arg
  /\ last.arg.deviceType # Stored(last.pre, last.id).deviceType
  /\ last.arg.deviceId # Stored(last.pre, last.id).deviceId
  /\ last.ret.currentOTA = last.arg.currentOTA

\* C4: updateDevice on a stored id leaves the id field of the record stored
\* under that id as it was, also when the payload carries an id field.
C4_UpdateKeepsId ==
  last.op = "updateDevice" /\ MapHas(last.pre, last.id) =>
    getDevice(devices, last.id).id = Stored(last.pre, last.id).id

\* C5: deleteDevice returns true and removes the record when the id is
\* stored; it returns false and leaves the store unchanged on a second call
\* for the same id and on an id that was never stored.
C5_DeleteIdempotent ==
  last.op = "deleteDevice" =>
    /\ last.bool = MapHas(last.pre, last.id)
    /\ ~MapHas(devices, last.id)
    /\ MapKeys(devices) = MapKeys(last.pre) \ {last.id}
    /\ \A k \in MapKeys(devices) : Stored(devices, k) = Stored(last.pre, k)
    /\ ~last.bool => devices = last.pre
    /\ last.id \in last.preDeleted => ~last.bool
    /\ (\A i \in 1..Len(created) : created[i] # last.id) => ~last.bool

C5_Witness ==
  /\ last.op = "deleteDevice"
  /\ last.id \in last.preDeleted
  /\ last.bool = FALSE
  /\ devices = last.pre

\* C6: searchDevices(criteria) returns exactly the stored devices that meet
\* every criterion present and non-empty: deviceType by equality, deviceId
\* by substring containment, currentOTA by equality; none omitted, none
\* added, none repeated.
C6_SearchExact ==
  last.op = "searchDevices" =>
    LET hits == {i \in 1..Len(devices) : Wanted(devices[i].value, last.arg)}
    IN  /\ Len(last.list) = Cardinality(hits)
        /\ \A i \in hits : \E j \in 1..Len(last.list) : last.list[j] = devices[i].value
        /\ \A j \in 1..Len(last.list) : \E i \in hits : last.list[j] = devices[i].value

C6_Witness ==
  /\ last.op = "searchDevices"
  /\ last.arg = [deviceId |-> "660"]
  /\ \E j \in 1..Len(last.list) : last.list[j].deviceId = "6603041292"
  /\ \E j \in 1..Len(last.list) : last.list[j].deviceId = "660"
  /\ Len(last.list) < Len(devices)

\* C7: in every reachable store state, searchDevices with the empty
\* criteria object returns the same devices as getDevices.
C7_SearchAllIsGetDevices ==
  /\ searchDevices(devices, EmptyObject) = getDevices(devices)
  /\ last.op = "searchDevices" /\ last.arg = EmptyObject =>
       last.list = getDevices(devices)

C7_Witness ==
  /\ last.op = "searchDevices"
  /\ last.arg = EmptyObject
  /\ last.list = getDevices(devices)
  /\ deleted # {}
  /\ Len(last.list) > Len(initialDevices)

\* C8: getDevices lists every stored device in creation order, which is the
\* order of the keys the counter assigned; an updateDevice leaves every
\* device at its position.
C8_InsertionOrder ==
  /\ Len(getDevices(devices)) = Cardinality(MapKeys(devices))
  /\ \A i \in 1..Len(getDevices(devices)) :
       getDevices(devices)[i] = Stored(devices, KthKey(devices, i))
  /\ last.op = "getDevices" => last.list = getDevices(devices)
  /\ last.op = "updateDevice" =>
       [i \in 1..Len(devices) |-> devices[i].key]
         = [i \in 1..Len(last.pre) |-> last.pre[i].key]

C8_Witness ==
  /\ last.op = "updateDevice"
  /\ last.id = 1
  /\ MapHas(last.pre, 1)
  /\ last.ret # Stored(last.pre, 1)
  /\ FirstNewId \in deleted
  /\ MapHas(devices, FirstNewId + 1)
  /\ getDevices(devices)[1] = last.ret

\* C9: an authenticated POST /api/devices whose validated payload has the
\* deviceType and the deviceId of a device stored when the handler is
\* called is answered 409 after the search alone, and the step that
\* answers 409 leaves the stored records and the id counter unchanged.
C9_DuplicateRejected ==
  /\ []( ( /\ last.op = "POST /api/devices"
           /\ last.preSession # Undefined
           /\ deviceValidationSchema(last.body).success
           /\ PairStored(last.pre, deviceValidationSchema(last.body).data) )
         => /\ last.status = 409
            /\ last.calls = <<"searchDevices">> )
  /\ [][ last'.op = "POST /api/devices" /\ last'.status = 409
          => devices' = devices /\ deviceId' = deviceId ]_vars

C9_Witness ==
  /\ last.op = "POST /api/devices"
  /\ last.preSession # Undefined
  /\ deviceValidationSchema(last.body).success
  /\ PairStored(last.pre, deviceValidationSchema(last.body).data)
  /\ deviceValidationSchema(last.body).data.deviceId = "77"
  /\ last.status = 409
  /\ devices = last.pre

\* C10: an authenticated POST /api/devices with a valid payload is answered
\* 409 only when a stored device has the identical (deviceType, deviceId)
\* pair; when none has, it is answered 201 and the device is stored.
C10_ConflictOnlyOnIdenticalPair ==
  ( /\ last.op = "POST /api/devices"
    /\ last.preSession # Undefined
    /\ deviceValidationSchema(last.body).success )
  => LET data == deviceValidationSchema(last.body).data
     IN  /\ last.status = 409 => PairStored(last.pre, data)
         /\ ~PairStored(last.pre, data) =>
              /\ last.status = 201
              /\ getDevice(devices, last.ret.id) = last.ret
              /\ PairStored(devices, data)

\* the device endpoints that registerRoutes puts behind checkAuth
DeviceEndpoints ==
  {"GET /api/devices", "POST /api/devices", "POST /api/devices/search",
   "PUT /api/devices/:id"}

\* property k of a login body is missing or empty
MissingField(b, k) == k \notin DOMAIN b \/ b[k] = JStr("")

\* some stored user has the username and the password of login body b
CredentialsMatch(b) ==
  /\ ~MissingField(b, "username")
  /\ ~MissingField(b, "password")
  /\ \E i \in 1..Len(users) :
       /\ JStr(users[i].value.username) = b.username
       /\ JStr(users[i].value.password) = b.password

\* every device request called on the current session is answered 401
DeviceRequestsRefused ==
  /\ getApiDevicesCalled(session, devices).status = 401
  /\ \A b \in DeviceBodies :
       postApiDevicesCalled(session, devices, b).status = 401
  /\ \A b \in SearchBodies :
       postApiDevicesSearchCalled(session, devices, b).status = 401
  /\ \A p \in IdParams :
       putApiDevicesCalled(session, devices, p).status = 401

\* C11: from the seeded store, after any sequence of requests to the
\* registered routes, handled one request at a time, no two stored devices
\* have the same (deviceType, deviceId) pair.
C11_PairsUnique ==
  \A i \in 1..Len(devices), j \in 1..Len(devices) :
    i # j => ~( /\ devices[i].value.deviceType = devices[j].value.deviceType
                /\ devices[i].value.deviceId = devices[j].value.deviceId )

C11_Witness ==
  /\ last.op = "POST /api/devices"
  /\ last.status = 409
  /\ last.body = DeviceBody(NewPayload)
  /\ PairStored(devices, NewPayload)
  /\ PairStored(devices, OtherPayload)
  /\ Len(devices) = Len(initialDevices) + 2

\* C12: a request to a device endpoint on a session that holds no user is
\* answered 401 before any validation or store access: no storage method
\* is called, the store is unchanged, and an invalid body gets 401, not 400.
C12_UnauthenticatedRefusedFirst ==
  last.op \in DeviceEndpoints /\ last.preSession = Undefined =>
    /\ last.status = 401
    /\ last.calls = <<>>
    /\ devices = last.pre
    /\ deviceId = last.preDeviceId

C12_Witness ==
  /\ last.op = "POST /api/devices"
  /\ last.preSession = Undefined
  /\ last.body \in InvalidDeviceBodies
  /\ last.status = 401
  /\ Len(devices) > Len(initialDevices)

\* C13: a login with an unknown username or a wrong password is answered
\* 401 and does not put a user into the session; while the session holds no
\* user every device request called on it is answered 401, and only a login
\* answered 200 gives the session a user.
C13_FailedLoginLeavesRefused ==
  /\ [](last.op = "POST /api/auth/login"
          /\ ~MissingField(last.body, "username")
          /\ ~MissingField(last.body, "password")
          /\ ~CredentialsMatch(last.body)
        => last.status = 401)
  /\ [][last'.op = "POST /api/auth/login" /\ last'.status = 401
          => session' = session]_vars
  /\ [](session = Undefined => DeviceRequestsRefused)
  /\ [][session = Undefined /\ session' # Undefined
          => last'.op = "POST /api/auth/login" /\ last'.status = 200]_vars

C13_Witness ==
  /\ last.op = "POST /api/auth/login"
  /\ last.body = [username |-> JStr("ubuntu"), password |-> JStr("wrong")]
  /\ last.status = 401
  /\ last.preSession = Undefined
  /\ session = Undefined
  /\ DeviceRequestsRefused

\* C14: a login is answered 400 when username or password is missing or
\* empty, without a user lookup or a change of the session; it is answered
\* 200 exactly when a stored user has that username and that password, and
\* then the session's user is that user's id and username.
C14_LoginStatuses ==
  last.op = "POST /api/auth/login" =>
    /\ MissingField(last.body, "username") \/ MissingField(last.body, "password")
         => /\ last.status = 400
            /\ last.calls = <<>>
            /\ session = last.preSession
    /\ last.status = 200 <=> CredentialsMatch(last.body)
    /\ last.status = 200 =>
         \E i \in 1..Len(users) :
           /\ JStr(users[i].value.username) = last.body.username
           /\ session = [id |-> users[i].value.id,
                         username |-> users[i].value.username]

C14_Witness ==
  /\ last.op = "POST /api/auth/login"
  /\ last.body = [username |-> JStr(""), password |-> JStr("x")]
  /\ last.status = 400
  /\ last.preSession # Undefined
  /\ session = last.preSession

\* C15: an authenticated POST /api/devices whose body fails the device
\* schema is answered 400 before any store mutation: the stored devices and
\* the id counter are as before.
C15_InvalidBodyRejected ==
  ( /\ last.op = "POST /api/devices"
    /\ last.preSession # Undefined
    /\ last.body \in InvalidDeviceBodies )
  => /\ last.status = 400
     /\ devices = last.pre
     /\ deviceId = last.preDeviceId

C15_Witness ==
  /\ last.op = "POST /api/devices"
  /\ last.preSession # Undefined
  /\ last.body = Spread(DeviceBody(NewPayload), [ipAddress |-> JStr("abc")])
  /\ last.status = 400
  /\ devices = last.pre

\* C16: an authenticated PUT /api/devices/:id whose id names a stored device
\* and whose body is a valid partial set of update fields is answered 200,
\* and the stored record then carries the new field values.
C16_PutUpdates ==
  ( /\ last.op = "PUT /api/devices/:id"
    /\ last.preSession # Undefined
    /\ last.param = "1"
    /\ MapHas(last.pre, 1)
    /\ last.body = [currentOTA |-> JStr("4.0.2.rc.1"), ipAddress |-> JStr("10.0.0.9")] )
  => /\ last.status = 200
     /\ getDevice(devices, 1).currentOTA = "4.0.2.rc.1"
     /\ getDevice(devices, 1).ipAddress = "10.0.0.9"

\* C17: an authenticated DELETE /api/devices/:id is answered 200 and removes
\* the device when the id names a stored device, and is answered 404 with
\* the store unchanged when the id is unknown.
C17_DeleteRoute ==
  last.op = "DELETE /api/devices/:id" /\ last.preSession # Undefined =>
    /\ last.param = "1" /\ MapHas(last.pre, 1) =>
         last.status = 200 /\ ~MapHas(devices, 1)
    /\ last.param = "999" => last.status = 404 /\ devices = last.pre

\* C18: getDevice and updateDevice on an id that is not stored return
\* undefined, getUserByUsername on an unknown username returns undefined,
\* and updateDevice on an unknown id leaves the store as it was: no record
\* is created and the id counter does not move.
C18_NotFoundIsAbsent ==
  /\ last.op = "getDevice" /\ ~MapHas(last.pre, last.id) => last.ret = Undefined
  /\ last.op = "updateDevice" /\ ~MapHas(last.pre, last.id) =>
       /\ last.ret = Undefined
       /\ devices = last.pre
       /\ deviceId = last.preDeviceId
  /\ ( /\ last.op = "getUserByUsername"
       /\ \A i \in 1..Len(users) : users[i].value.username # last.arg.username )
     => last.ret = Undefined

C18_Witness ==
  /\ last.op = "updateDevice"
  /\ last.id = NeverId
  /\ "currentOTA" \in DOMAIN last.arg
  /\ last.ret = Undefined
  /\ ~MapHas(devices, NeverId)
  /\ Len(devices) > Len(initialDevices)

\* C19: updateDevice on a stored id gives every field among currentOTA,
\* ipAddress, sshUser and password that the payload provides the payload's
\* value, and leaves every field the payload does not provide as it was.
C19_OnlyProvidedFieldsChange ==
  last.op = "updateDevice" /\ MapHas(last.pre, last.id) =>
    LET before == getDevice(last.pre, last.id)
        after  == getDevice(devices, last.id)
    IN  /\ \A f \in {"currentOTA", "ipAddress", "sshUser", "password"} :
             f \in DOMAIN last.arg =>
               after[f] = last.arg[f] /\ last.ret[f] = last.arg[f]
        /\ \A f \in DOMAIN before :
             f \notin DOMAIN last.arg => f \in DOMAIN after /\ after[f] = before[f]

C19_Witness ==
  /\ last.op = "updateDevice"
  /\ MapHas(last.pre, last.id)
  /\ "ipAddress" \in DOMAIN last.arg
  /\ "password" \notin DOMAIN last.arg
  /\ getDevice(last.pre, last.id).ipAddress # last.arg.ipAddress
  /\ getDevice(devices, last.id).ipAddress = last.arg.ipAddress
  /\ getDevice(devices, last.id).sshUser = last.arg.sshUser
  /\ getDevice(devices, last.id).password = getDevice(last.pre, last.id).password

\* C20: a caller that modifies a device returned by createDevice, getDevice,
\* getDevices, searchDevices or updateDevice does not change what a later
\* getDevice on that id returns.
C20_CallersGetCopies ==
  last.op = "Object.assign" =>
    getDevice(devices, last.id) = getDevice(last.pre, last.id)

\* C21: an authenticated PUT /api/devices/:id whose path id is not
\* entirely decimal digits is answered 400 and neither reads nor changes a
\* device record.
C21_NonNumericIdRejected ==
  ( /\ last.op = "PUT /api/devices/:id"
    /\ last.preSession # Undefined
    /\ ~MatchesNumeric(last.param) )
  => /\ last.status = 400
     /\ last.calls = <<>>
     /\ devices = last.pre

\* the characters of s that are dots
Dots(s) == {i \in 1..Len(s) : SubSeq(s, i, i) = "."}

\* four groups of one to three decimal digits, separated by dots
FourGroups(s) ==
  /\ Len(s) >= 1
  /\ \A i \in 1..Len(s) : SubSeq(s, i, i) \in Digit \cup {"."}
  /\ Cardinality(Dots(s)) = 3
  /\ 1 \notin Dots(s) /\ Len(s) \notin Dots(s)
  /\ \A i \in Dots(s) : i + 1 \notin Dots(s)
  /\ \A i \in 1..(Len(s) - 3) : \E j \in i..(i + 3) : j \in Dots(s)

\* property k of body b is a string that is not empty
NonEmptyString(b, k) == k \in DOMAIN b /\ b[k].t = "string" /\ b[k].v # ""

\* C22: deviceValidationSchema accepts a payload exactly when deviceType,
\* currentOTA, sshUser and password are non-empty strings, deviceId is a
\* non-empty string of decimal digits, and ipAddress is four groups of one
\* to three decimal digits separated by dots, whatever their value.
C22_SchemaAcceptsExactly ==
  last.op = "deviceValidationSchema.safeParse" =>
    ( last.bool <=>
        /\ \A k \in {"deviceType", "currentOTA", "sshUser", "password"} :
             NonEmptyString(last.body, k)
        /\ NonEmptyString(last.body, "deviceId")
        /\ \A i \in 1..Len(last.body.deviceId.v) :
             SubSeq(last.body.deviceId.v, i, i) \in Digit
        /\ NonEmptyString(last.body, "ipAddress")
        /\ FourGroups(last.body.ipAddress.v) )

C22_Witness ==
  /\ last.op = "deviceValidationSchema.safeParse"
  /\ last.bool
  /\ last.body.ipAddress = JStr("999.999.999.999")
  /\ last.body.deviceId = JStr("007")
  /\ last.ret.ipAddress = "999.999.999.999"

\* the methods of the store that only read
Readers ==
  {"getDevices", "getDevice", "searchDevices", "getUser", "getUserByUsername"}

\* C23: user ids start at 1 and strictly increase with each createUser on a
\* counter of their own: creating or deleting devices never changes the
\* next user id, and creating users never changes the next device id.
C23_UserIdsOnOwnCounter ==
  /\ [](\A i \in 1..Len(users) : users[i].key = i /\ users[i].value.id = i)
  /\ [](userId = Len(users) + 1)
  /\ [][ /\ last'.op = "createUser" =>
              /\ last'.ret.id = userId
              /\ userId' = userId + 1
              /\ deviceId' = deviceId
         /\ last'.op \in {"createDevice", "deleteDevice"} => userId' = userId ]_vars

C23_Witness ==
  /\ last.op = "createUser"
  /\ last.ret.id = Constructed.userId + 1
  /\ last.ret.username = "ubuntu"
  /\ deviceId > Constructed.deviceId
  /\ deleted # {}

\* C26: once deleteDevice(id) has returned true, getDevice(id) returns
\* undefined and updateDevice(id, ...) returns undefined without creating a
\* record, after any further create, update and delete calls.
C26_DeletedStaysAbsent ==
  /\ \A id \in deleted :
       /\ getDevice(devices, id) = Undefined
       /\ \A u \in UpdatePayloads :
            /\ updateDevice(devices, id, u).ret = Undefined
            /\ updateDevice(devices, id, u).devices = devices
  /\ last.op \in {"getDevice", "updateDevice"} /\ last.id \in last.preDeleted =>
       last.ret = Undefined /\ devices = last.pre

C26_Witness ==
  /\ last.op = "updateDevice"
  /\ last.id = FirstNewId
  /\ FirstNewId \in last.preDeleted
  /\ "currentOTA" \in DOMAIN last.arg
  /\ last.ret = Undefined
  /\ MapHas(devices, FirstNewId + 1)
  /\ ~MapHas(devices, FirstNewId)

\* C27: each device is stored under a key equal to its own id field, every
\* stored id is at least 1 and less than the next-id counter, and the
\* counter never decreases.
C27_KeyIsIdBelowCounter ==
  /\ [](\A i \in 1..Len(devices) :
          /\ devices[i].value.id = devices[i].key
          /\ devices[i].value.id >= 1
          /\ devices[i].value.id < deviceId)
  /\ [][deviceId' >= deviceId]_vars

\* C28: createDevice adds one record and leaves the existing ones as they
\* were, updateDevice(id) and deleteDevice(id) leave every record under
\* another id as it was, none of the three changes the users, and the
\* reading methods change nothing in the store.
C28_Frame ==
  [][ /\ last'.op = "createDevice" =>
           /\ Len(devices') = Len(devices) + 1
           /\ \A i \in 1..Len(devices) : devices'[i] = devices[i]
           /\ users' = users /\ userId' = userId
      /\ last'.op = "updateDevice" =>
           /\ MapKeys(devices') = MapKeys(devices)
           /\ \A k \in MapKeys(devices) \ {last'.id} :
                MapGet(devices', k) = MapGet(devices, k)
           /\ users' = users /\ userId' = userId /\ deviceId' = deviceId
      /\ last'.op = "deleteDevice" =>
           /\ MapKeys(devices) \ {last'.id} \subseteq MapKeys(devices')
           /\ MapKeys(devices') \subseteq MapKeys(devices)
           /\ \A k \in MapKeys(devices) \ {last'.id} :
                MapGet(devices', k) = MapGet(devices, k)
           /\ users' = users /\ userId' = userId /\ deviceId' = deviceId
      /\ last'.op \in Readers =>
           /\ devices' = devices /\ deviceId' = deviceId
           /\ users' = users /\ userId' = userId ]_vars

C28_Witness ==
  /\ last.op = "deleteDevice"
  /\ last.bool
  /\ last.id = 1
  /\ Len(devices) = Len(last.pre) - 1
  /\ \A k \in MapKeys(last.pre) \ {1} : MapGet(devices, k) = MapGet(last.pre, k)
  /\ Len(users) > 1
  /\ Len(last.pre) > Len(initialDevices)

\* the stored devices that have pair p
WithPair(p) ==
  {i \in 1..Len(devices) : /\ devices[i].value.deviceType = p.deviceType
                           /\ devices[i].value.deviceId = p.deviceId}

\* given an authenticated session and no stored device with that pair.
C25_FormBodyCreates ==
  ( /\ last.op = "POST /api/devices"
    /\ last.preSession # Undefined
    /\ \E d \in FormValues, pw \in AdminPasswords :
         /\ last.body = addDeviceMutation(d, pw)
         /\ ~PairStored(last.pre, d) )
  => /\ last.status = 201
     /\ \E d \in FormValues : "deviceData" \in DOMAIN last.body
                              /\ last.body.deviceData = JObj(DeviceBody(d))
                              /\ PairStored(devices, d)

\* C29: with requests handled one at a time, after POST /api/auth/logout
\* is answered 200 the session holds no
\* user, and while it holds none every device request and GET
\* /api/auth/user called on it is answered 401, until a login is answered
\* 200.
C29_LogoutEndsSession ==
  /\ [](last.op = "POST /api/auth/logout" /\ last.status = 200
          => session = Undefined)
  /\ [][ ( /\ session = Undefined
           /\ ~(last'.op = "POST /api/auth/login" /\ last'.status = 200) )
         => /\ session' = Undefined
            /\ ( /\ last'.op \in DeviceEndpoints \cup {"GET /api/auth/user"}
                 /\ last'.preSession = Undefined )
               => last'.status = 401 ]_vars

C29_Witness ==
  /\ last.op = "GET /api/auth/user"
  /\ last.status = 401
  /\ session = Undefined
  /\ Len(devices) > Len(initialDevices)

====
